---- MODULE Spec2Model ----
(***************************************************************************)
(* The polymorphic parameter value of vda5050-types (src/common.rs and     *)
(* src/action.rs, feature "serde"): the two value enums, their visitor     *)
(* based decoders, the derived untagged encoders, the scalar accessors,    *)
(* get_value, the derived equality and the two ActionParameter records     *)
(* that embed a value.                                                     *)
(*                                                                         *)
(* Machine integers are bit patterns: a tuple of four 16-bit limbs, least  *)
(* significant first, so that as i64 casts are computed on the bits.     *)
(* Text is a sequence of one-character strings.                            *)
(***************************************************************************)
EXTENDS Integers, Sequences, FiniteSets, TLC

VARIABLES
    input,               \* what the caller hands in: a deserializer, a value or a record
    decoded,             \* result of deserialize_parameter_value
    encoded,             \* wire value written for a ParameterValue
    simple,              \* result of deserialize_value
    simpleEncoded,       \* wire value written for an ActionParameterValue
    probe,               \* what is_null and the accessors answered
    recordWire,          \* wire object written for a record
    recordDecoded,       \* result of decoding a wire object as common::ActionParameter
    simpleRecordDecoded, \* result of decoding a wire object as action::ActionParameter
    equal,               \* what == answered for a pair of values or records
    built,               \* the record ActionParameter::default() returned
    untagged             \* result of decoding directly as a ParameterValue

vars == <<input, decoded, encoded, simple, simpleEncoded, probe, recordWire,
          recordDecoded, simpleRecordDecoded, equal, built, untagged>>

(***************************************************************************)
(* Bounds of the model.                                                    *)
(***************************************************************************)
\* wire integers are taken at distance <= Delta from each power-of-two boundary
Delta == 1
\* longest list / key-map among the wire containers
MaxItems == 2
\* largest whole part of the sampled floating-point numbers
MaxWhole == 1

(***************************************************************************)
(* 64-bit arithmetic on limbs.                                             *)
(***************************************************************************)
Limb == 2^16
Half == 2^15
Ones == Limb - 1

Zero64 == <<0, 0, 0, 0>>

\* b + d (mod 2^64) for a small signed d, carried through the limbs
RECURSIVE AddAt(_, _, _)
AddAt(b, i, c) ==
    IF i > 4 \/ c = 0 THEN b
    ELSE LET s == b[i] + c
         IN  AddAt([b EXCEPT ![i] = s % Limb], i + 1,
                   IF s < 0 THEN -1 ELSE IF s >= Limb THEN 1 ELSE 0)

Add64(b, d) == AddAt(b, 1, d)

\* two's complement negation (mod 2^64)
Neg64(b) == Add64(<<Ones - b[1], Ones - b[2], Ones - b[3], Ones - b[4]>>, 1)

\* 2^k as a bit pattern, 0 <= k <= 63
Pow2(k) ==
    <<IF k \div 16 = 0 THEN 2^(k % 16) ELSE 0, IF k \div 16 = 1 THEN 2^(k % 16) ELSE 0,
      IF k \div 16 = 2 THEN 2^(k % 16) ELSE 0, IF k \div 16 = 3 THEN 2^(k % 16) ELSE 0>>

\* unsigned comparison of bit patterns
LessEq64(a, b) ==
    \/ a = b
    \/ \E i \in 1..4 : a[i] < b[i] /\ \A j \in (i+1)..4 : a[j] = b[j]

(***************************************************************************)
(* Mathematical integers: sign and magnitude (the magnitude < 2^64).       *)
(***************************************************************************)
Pos(m) == [neg |-> FALSE, mag |-> m]
Neg(m) == [neg |-> m # Zero64, mag |-> m]

\* the number an i64 bit pattern stands for
I64Value(bits) ==
    IF bits[4] >= Half THEN Neg(Neg64(bits)) ELSE Pos(bits)

\* the number a u8/u16/u32/u64 bit pattern stands for
U64Value(bits) == Pos(bits)

InI64Range(n) ==
    IF n.neg THEN LessEq64(n.mag, Pow2(63)) ELSE n.mag[4] < Half

(***************************************************************************)
(* Rust's integer types as bit patterns of width w in {8, 16, 32, 64}.     *)
(***************************************************************************)
\* the low w bits of a pattern
Trunc(b, w) ==
    CASE w = 8  -> <<b[1] % 256, 0, 0, 0>>
      [] w = 16 -> <<b[1], 0, 0, 0>>
      [] w = 32 -> <<b[1], b[2], 0, 0>>
      [] w = 64 -> b

\* iN as i64: the sign bit of the narrow type is copied into the upper bits
SignExtend(b, w) ==
    CASE w = 8  -> IF b[1] >= 128 THEN <<b[1] + (Limb - 256), Ones, Ones, Ones>> ELSE b
      [] w = 16 -> IF b[1] >= Half THEN <<b[1], Ones, Ones, Ones>> ELSE b
      [] w = 32 -> IF b[2] >= Half THEN <<b[1], b[2], Ones, Ones>> ELSE b
      [] w = 64 -> b

\* uN as i64: the upper bits are zero; for u64 the 64 bits are kept as they are
ZeroExtend(b, w) == b

\* the bit pattern of the number n in a type of width w (n fits the type)
Encode2c(n, w) == IF n.neg THEN Trunc(Neg64(n.mag), w) ELSE n.mag

FitsSigned(n, w) ==
    IF n.neg THEN LessEq64(n.mag, Pow2(w - 1))
    ELSE LessEq64(n.mag, Add64(Pow2(w - 1), -1))

FitsUnsigned(n, w) ==
    /\ ~n.neg
    /\ (w = 64 \/ LessEq64(n.mag, Add64(Pow2(w), -1)))

(***************************************************************************)
(* Text and floating point.                                                *)
(***************************************************************************)
\* f64: a finite decimal  (-1)^neg * (whole + frac/100),  NaN or +-infinity
Finite(neg, whole, frac) ==
    [cls |-> "finite", neg |-> neg, whole |-> whole, frac |-> frac]

\* f32 as f64: every f32 is exactly an f64
F32AsF64(x) == [cls |-> x.cls, neg |-> x.neg, whole |-> x.whole, frac |-> x.frac]

\* the sampled f32 values: those f64 samples a float holds exactly
IsF32(x) == x.cls # "finite" \/ (x.frac \in {0, 25, 50, 75} /\ x.whole < 2^24)

(***************************************************************************)
(* Result and Option.                                                      *)
(***************************************************************************)
Ok(x)  == [ok |-> TRUE, val |-> x]
Err(e) == [ok |-> FALSE, err |-> e]

None    == [some |-> FALSE]
Some(x) == [some |-> TRUE, v |-> x]

(***************************************************************************)
(* The wire-value tree: what the text decoder hands over and what the text *)
(* encoder is given.  An integer literal carries a number, a literal with  *)
(* a fraction carries a finite f64.                                        *)
(***************************************************************************)
WNull      == [shape |-> "null"]
WBool(b)   == [shape |-> "bool", b |-> b]
WInt(n)    == [shape |-> "int", n |-> n]
WFloat(x)  == [shape |-> "float", x |-> x]
WString(s) == [shape |-> "string", s |-> s]
WMap(es)   == [shape |-> "map", entries |-> es]
WList(xs)  == [shape |-> "list", items |-> xs]

ScalarShapes == {"null", "bool", "int", "float", "string"}

(***************************************************************************)
(* common.rs: enum ParameterValue.                                         *)
(***************************************************************************)
PvNull       == [t |-> "Null"]
PvBool(b)    == [t |-> "Bool", b |-> b]
PvNumber(n)  == [t |-> "Number", n |-> n]
PvInteger(i) == [t |-> "Integer", i |-> i]
PvFloat(f)   == [t |-> "Float", f |-> f]
PvString(s)  == [t |-> "String", s |-> s]
PvObject(o)  == [t |-> "Object", obj |-> o]
PvArray(a)   == [t |-> "Array", arr |-> a]

(***************************************************************************)
(* action.rs: enum ActionParameterValue.                                   *)
(***************************************************************************)
ApvNull       == [t |-> "Null"]
ApvBoolean(b) == [t |-> "Boolean", b |-> b]
ApvInteger(i) == [t |-> "Integer", i |-> i]
ApvFloat(f)   == [t |-> "Float", f |-> f]
ApvString(s)  == [t |-> "String", s |-> s]

(***************************************************************************)
(* serde_json::Value, the payload of Object and Array.  A number keeps the *)
(* representation it was parsed in: PosInt(u64), NegInt(i64) or Float.     *)
(***************************************************************************)
JNull      == [j |-> "Null"]
JBool(b)   == [j |-> "Bool", b |-> b]
JPosInt(u) == [j |-> "Number", k |-> "PosInt", u |-> u]
JNegInt(i) == [j |-> "Number", k |-> "NegInt", i |-> i]
JFloat(f)  == [j |-> "Number", k |-> "Float", f |-> f]
JString(s) == [j |-> "String", s |-> s]
JArray(a)  == [j |-> "Array", arr |-> a]
JObject(m) == [j |-> "Object", map |-> m]

\* Map::insert on the map that keeps its keys in the order of insertion: an
\* equal key has its value replaced in place, a new key goes to the end
RECURSIVE MapInsert(_, _, _)
MapInsert(m, k, v) ==
    IF m = <<>> THEN <<[k |-> k, v |-> v]>>
    ELSE IF Head(m).k = k THEN <<[k |-> k, v |-> v]>> \o Tail(m)
    ELSE <<Head(m)>> \o MapInsert(Tail(m), k, v)

\* Value's own Deserialize, on a node of the wire tree
RECURSIVE ValueFromWire(_)
RECURSIVE ValueMapFromWire(_, _)
ValueMapFromWire(es, acc) ==
    IF es = <<>> THEN acc
    ELSE ValueMapFromWire(Tail(es),
                          MapInsert(acc, Head(es).k, ValueFromWire(Head(es).v)))

ValueFromWire(w) ==
    CASE w.shape = "null"   -> JNull
      [] w.shape = "bool"   -> JBool(w.b)
      [] w.shape = "int"    -> IF w.n.neg THEN JNegInt(Neg64(w.n.mag))
                               ELSE JPosInt(w.n.mag)
      [] w.shape = "float"  -> JFloat(w.x)
      [] w.shape = "string" -> JString(w.s)
      [] w.shape = "list"   -> JArray([i \in 1..Len(w.items) |-> ValueFromWire(w.items[i])])
      [] w.shape = "map"    -> JObject(ValueMapFromWire(w.entries, <<>>))

\* serialize_f64 of the text encoder: a finite number is written as a float
\* a variant of the float encoder that writes a whole number without fraction
WireOfF64WholeAsInt(x) ==
    IF x.cls # "finite" THEN WNull
    ELSE IF x.frac = 0
    THEN WInt(IF x.neg THEN Neg(Add64(Zero64, x.whole)) ELSE Pos(Add64(Zero64, x.whole)))
    ELSE WFloat(x)

\* literal (always with a fraction), NaN and the infinities as null
WireOfF64(f) == IF f.cls \in {"finite", "big"} THEN WFloat(f) ELSE WNull

\* Value's own Serialize
RECURSIVE WireFromValue(_)
WireFromValue(v) ==
    CASE v.j = "Null"   -> WNull
      [] v.j = "Bool"   -> WBool(v.b)
      [] v.j = "Number" -> ( CASE v.k = "PosInt" -> WInt(U64Value(v.u))
                               [] v.k = "NegInt" -> WInt(I64Value(v.i))
                               [] v.k = "Float"  -> WireOfF64(v.f) )
      [] v.j = "String" -> WString(v.s)
      [] v.j = "Array"  -> WList([i \in 1..Len(v.arr) |-> WireFromValue(v.arr[i])])
      [] v.j = "Object" -> WMap([i \in 1..Len(v.map) |->
                                   [k |-> v.map[i].k, v |-> WireFromValue(v.map[i].v)]])

(***************************************************************************)
(* deserializer.deserialize_any(Value): the one Visitor method that a      *)
(* self-describing deserializer calls for a wire value.  An integer is     *)
(* handed over in any integer type that holds it (the JSON text decoder    *)
(* uses u64 for n >= 0 and i64 for n < 0), a float in f64 or, when exact,  *)
(* f32, a string in any of the string forms.                               *)
(***************************************************************************)
Call(m)           == [m |-> m]
CallBool(b)       == [m |-> "visit_bool", b |-> b]
CallInt(m, bits)  == [m |-> m, bits |-> bits]
CallFloat(m, f)   == [m |-> m, f |-> f]
CallChar(c)       == [m |-> "visit_char", c |-> c]
CallStr(m, s)     == [m |-> m, s |-> s]
CallMap(es)       == [m |-> "visit_map", entries |-> es]
CallSeq(xs)       == [m |-> "visit_seq", items |-> xs]

SignedVisits   == {<<"visit_i8", 8>>, <<"visit_i16", 16>>, <<"visit_i32", 32>>, <<"visit_i64", 64>>}
UnsignedVisits == {<<"visit_u8", 8>>, <<"visit_u16", 16>>, <<"visit_u32", 32>>, <<"visit_u64", 64>>}

deserialize_any(w) ==
    CASE w.shape = "null"   -> {Call("visit_unit")}
      [] w.shape = "bool"   -> {CallBool(w.b)}
      [] w.shape = "int"    ->
            {CallInt(v[1], Encode2c(w.n, v[2])) : v \in {u \in SignedVisits : FitsSigned(w.n, u[2])}}
            \cup
            {CallInt(v[1], Encode2c(w.n, v[2])) : v \in {u \in UnsignedVisits : FitsUnsigned(w.n, u[2])}}
      [] w.shape = "float"  ->
            {CallFloat("visit_f64", w.x)} \cup
            (IF IsF32(w.x) THEN {CallFloat("visit_f32", w.x)} ELSE {})
      [] w.shape = "string" ->
            {CallStr(m, w.s) : m \in {"visit_str", "visit_borrowed_str", "visit_string"}} \cup
            (IF Len(w.s) = 1 THEN {CallChar(w.s[1])} ELSE {})
      [] w.shape = "map"    -> {CallMap(w.entries)}
      [] w.shape = "list"   -> {CallSeq(w.items)}

(***************************************************************************)
(* common.rs: the Visitor of deserialize_parameter_value.                  *)
(***************************************************************************)
visit_bool(value) == Ok(PvBool(value))

visit_i64(value) == Ok(PvInteger(value))

visit_i8(value)  == visit_i64(SignExtend(value, 8))

visit_i16(value) == visit_i64(SignExtend(value, 16))

visit_i32(value) == visit_i64(SignExtend(value, 32))

visit_u8(value)  == visit_i64(ZeroExtend(value, 8))

visit_u16(value) == visit_i64(ZeroExtend(value, 16))

\* a variant of visit_u32 that widens through i32
visit_u32_through_i32(value) == visit_i64(SignExtend(value, 32))

visit_u32(value) == visit_i64(ZeroExtend(value, 32))

visit_u64(value) == visit_i64(ZeroExtend(value, 64))

\* a variant of visit_f64 that builds the Number variant
visit_f64_as_number(value) == Ok(PvNumber(value))

visit_f64(value) == Ok(PvFloat(value))

visit_f32(value) == visit_f64(F32AsF64(value))

visit_string(value) == Ok(PvString(value))

visit_char(value) == Ok(PvString(<<value>>))

visit_str(value) == visit_string(value)

visit_borrowed_str(value) == visit_string(value)

\* a variant of visit_unit as the Visitor trait provides it
visit_unit_not_overridden == Err("invalid type: null")

visit_unit == Ok(PvNull)

\* a variant of visit_map as the Visitor trait provides it
visit_map_not_overridden(map) == Err("invalid type: map")

visit_map(map) == Ok(PvObject(ValueFromWire(WMap(map))))

\* a variant of visit_seq that pushes each element to the front
visit_seq_reversed(seq) ==
    Ok(PvArray([i \in 1..Len(seq) |-> ValueFromWire(seq[Len(seq) + 1 - i])]))

visit_seq(seq) == Ok(PvArray([i \in 1..Len(seq) |-> ValueFromWire(seq[i])]))

deserialize_parameter_value(c) ==
    CASE c.m = "visit_unit"         -> visit_unit
      [] c.m = "visit_bool"         -> visit_bool(c.b)
      [] c.m = "visit_i8"           -> visit_i8(c.bits)
      [] c.m = "visit_i16"          -> visit_i16(c.bits)
      [] c.m = "visit_i32"          -> visit_i32(c.bits)
      [] c.m = "visit_i64"          -> visit_i64(c.bits)
      [] c.m = "visit_u8"           -> visit_u8(c.bits)
      [] c.m = "visit_u16"          -> visit_u16(c.bits)
      [] c.m = "visit_u32"          -> visit_u32(c.bits)
      [] c.m = "visit_u64"          -> visit_u64(c.bits)
      [] c.m = "visit_f32"          -> visit_f32(c.f)
      [] c.m = "visit_f64"          -> visit_f64(c.f)
      [] c.m = "visit_char"         -> visit_char(c.c)
      [] c.m = "visit_str"          -> visit_str(c.s)
      [] c.m = "visit_borrowed_str" -> visit_borrowed_str(c.s)
      [] c.m = "visit_string"       -> visit_string(c.s)
      [] c.m = "visit_map"          -> visit_map(c.entries)
      [] c.m = "visit_seq"          -> visit_seq(c.items)

(***************************************************************************)
(* common.rs: derive(serde::Deserialize), serde(untagged) on ParameterValue. *)
(* The derived decoder buffers what the deserializer delivers and offers   *)
(* it to the variants in the order of their declaration; the first variant *)
(* whose payload type accepts it is the result.                            *)
(***************************************************************************)
\* the number of significant bits of a limb
BitLen(x) == CHOOSE n \in 0..16 : x < 2^n /\ (n = 0 \/ x >= 2^(n - 1))

\* n as f64 for an integer n delivered to f64's own visitor: exact below
\* 2^53, otherwise rounded to 53 significant bits, ties to even
IntAsF64(n) ==
    LET b == n.mag
    IN  IF b[2] = 0 /\ b[3] = 0 /\ b[4] = 0
        THEN [cls |-> "finite", neg |-> n.neg, whole |-> b[1], frac |-> 0]
        ELSE IF b[4] < 32
        THEN [cls |-> "big", neg |-> n.neg, mant |-> b, exp |-> 0]
        ELSE LET k == BitLen(b[4]) - 5
                 P == 2^k
                 q == <<(b[1] \div P) + (b[2] % P) * (Limb \div P),
                        (b[2] \div P) + (b[3] % P) * (Limb \div P),
                        (b[3] \div P) + (b[4] % P) * (Limb \div P),
                        b[4] \div P>>
                 r == b[1] % P
                 up == r > P \div 2 \/ (r = P \div 2 /\ q[1] % 2 = 1)
                 m == IF up THEN Add64(q, 1) ELSE q
             IN  IF m = Pow2(53)
                 THEN [cls |-> "big", neg |-> n.neg, mant |-> Pow2(52), exp |-> k + 1]
                 ELSE [cls |-> "big", neg |-> n.neg, mant |-> m, exp |-> k]

\* the integer a buffered visit_i8..visit_u64 call holds
ContentInteger(c) ==
    IF c.m = "visit_i8" THEN I64Value(SignExtend(c.bits, 8))
    ELSE IF c.m = "visit_i16" THEN I64Value(SignExtend(c.bits, 16))
    ELSE IF c.m = "visit_i32" THEN I64Value(SignExtend(c.bits, 32))
    ELSE IF c.m = "visit_i64" THEN I64Value(c.bits)
    ELSE U64Value(c.bits)

IsIntegerContent(c) ==
    c.m \in {"visit_i8", "visit_i16", "visit_i32", "visit_i64",
             "visit_u8", "visit_u16", "visit_u32", "visit_u64"}

\* serde_json::Value's own Deserialize on the buffered content: it takes
\* whatever was delivered
ValueFromContent(c) ==
    IF c.m = "visit_unit" THEN JNull
    ELSE IF c.m = "visit_bool" THEN JBool(c.b)
    ELSE IF IsIntegerContent(c)
    THEN (IF ContentInteger(c).neg THEN JNegInt(Encode2c(ContentInteger(c), 64))
          ELSE JPosInt(ContentInteger(c).mag))
    ELSE IF c.m = "visit_f64" THEN (IF c.f.cls = "finite" THEN JFloat(c.f) ELSE JNull)
    ELSE IF c.m = "visit_f32"
    THEN (IF c.f.cls = "finite" THEN JFloat(F32AsF64(c.f)) ELSE JNull)
    ELSE IF c.m = "visit_char" THEN JString(<<c.c>>)
    ELSE IF c.m \in {"visit_str", "visit_borrowed_str", "visit_string"} THEN JString(c.s)
    ELSE IF c.m = "visit_map" THEN ValueFromWire(WMap(c.entries))
    ELSE ValueFromWire(WList(c.items))

\* the f64 payload of Number and of Float: floats and integers are accepted
F64FromContent(c) ==
    IF c.m = "visit_f64" THEN Ok(c.f)
    ELSE IF c.m = "visit_f32" THEN Ok(F32AsF64(c.f))
    ELSE IF IsIntegerContent(c) THEN Ok(IntAsF64(ContentInteger(c)))
    ELSE Err("invalid type: expected f64")

\* one variant's attempt at the buffered content
TryVariant(variant, c) ==
    CASE variant = "Null" ->
           IF c.m = "visit_unit" THEN Ok(PvNull) ELSE Err("invalid type: expected unit")
      [] variant = "Bool" ->
           IF c.m = "visit_bool" THEN Ok(PvBool(c.b)) ELSE Err("invalid type: expected bool")
      [] variant = "Number" ->
           IF F64FromContent(c).ok THEN Ok(PvNumber(F64FromContent(c).val))
           ELSE F64FromContent(c)
      [] variant = "Integer" ->
           IF ~IsIntegerContent(c) THEN Err("invalid type: expected i64")
           ELSE IF ~InI64Range(ContentInteger(c)) THEN Err("invalid value: expected i64")
           ELSE Ok(PvInteger(Encode2c(ContentInteger(c), 64)))
      [] variant = "Float" ->
           IF F64FromContent(c).ok THEN Ok(PvFloat(F64FromContent(c).val))
           ELSE F64FromContent(c)
      [] variant = "String" ->
           IF c.m \in {"visit_str", "visit_borrowed_str", "visit_string"}
           THEN Ok(PvString(c.s)) ELSE Err("invalid type: expected a string")
      [] variant = "Object" -> Ok(PvObject(ValueFromContent(c)))
      [] variant = "Array" ->
           IF c.m = "visit_seq"
           THEN Ok(PvArray([i \in 1..Len(c.items) |-> ValueFromWire(c.items[i])]))
           ELSE Err("invalid type: expected a sequence")

\* the variants of ParameterValue in the order of their declaration
Variants == <<"Null", "Bool", "Number", "Integer", "Float", "String", "Object", "Array">>

\* the variants are tried from the i-th on; the first that accepts wins
RECURSIVE TryFrom(_, _, _)
TryFrom(order, i, c) ==
    IF i > Len(order)
    THEN Err("data did not match any variant of untagged enum ParameterValue")
    ELSE IF TryVariant(order[i], c).ok THEN TryVariant(order[i], c)
    ELSE TryFrom(order, i + 1, c)

\* <ParameterValue as Deserialize>::deserialize
DeserializeParameterValue(c) == TryFrom(Variants, 1, c)

(***************************************************************************)
(* action.rs: the Visitor of deserialize_value.  visit_map and visit_seq   *)
(* are not overridden: the trait's defaults reject the value.              *)
(***************************************************************************)
action_visit_bool(value) == Ok(ApvBoolean(value))

action_visit_i64(value) == Ok(ApvInteger(value))

action_visit_i8(value)  == action_visit_i64(SignExtend(value, 8))

action_visit_i16(value) == action_visit_i64(SignExtend(value, 16))

action_visit_i32(value) == action_visit_i64(SignExtend(value, 32))

action_visit_u8(value)  == action_visit_i64(ZeroExtend(value, 8))

action_visit_u16(value) == action_visit_i64(ZeroExtend(value, 16))

action_visit_u32(value) == action_visit_i64(ZeroExtend(value, 32))

\* visit_u64 refusing what does not fit an i64 instead of wrapping it
action_visit_u64_checked(value) ==
    IF InI64Range(U64Value(value)) THEN action_visit_i64(value)
    ELSE Err("invalid value: integer out of range")

action_visit_u64(value) == action_visit_i64(ZeroExtend(value, 64))

action_visit_f64(value) == Ok(ApvFloat(value))

action_visit_f32(value) == action_visit_f64(F32AsF64(value))

action_visit_string(value) == Ok(ApvString(value))

action_visit_char(value) == Ok(ApvString(<<value>>))

action_visit_str(value) == action_visit_string(value)

action_visit_borrowed_str(value) == action_visit_string(value)

action_visit_unit == Ok(ApvNull)

\* a variant of visit_map that takes a key-map for no value
action_visit_map_as_null(map) == Ok(ApvNull)

\* "invalid type: map, expected null, boolean, integer, float, string"
action_visit_map(map) == Err("invalid type: map")

action_visit_seq(seq) == Err("invalid type: sequence")

deserialize_value(c) ==
    CASE c.m = "visit_unit"         -> action_visit_unit
      [] c.m = "visit_bool"         -> action_visit_bool(c.b)
      [] c.m = "visit_i8"           -> action_visit_i8(c.bits)
      [] c.m = "visit_i16"          -> action_visit_i16(c.bits)
      [] c.m = "visit_i32"          -> action_visit_i32(c.bits)
      [] c.m = "visit_i64"          -> action_visit_i64(c.bits)
      [] c.m = "visit_u8"           -> action_visit_u8(c.bits)
      [] c.m = "visit_u16"          -> action_visit_u16(c.bits)
      [] c.m = "visit_u32"          -> action_visit_u32(c.bits)
      [] c.m = "visit_u64"          -> action_visit_u64(c.bits)
      [] c.m = "visit_f32"          -> action_visit_f32(c.f)
      [] c.m = "visit_f64"          -> action_visit_f64(c.f)
      [] c.m = "visit_char"         -> action_visit_char(c.c)
      [] c.m = "visit_str"          -> action_visit_str(c.s)
      [] c.m = "visit_borrowed_str" -> action_visit_borrowed_str(c.s)
      [] c.m = "visit_string"       -> action_visit_string(c.s)
      [] c.m = "visit_map"          -> action_visit_map(c.entries)
      [] c.m = "visit_seq"          -> action_visit_seq(c.items)

(***************************************************************************)
(* The derived untagged Serialize of the two enums: the payload is written *)
(* with no discriminator.                                                  *)
(***************************************************************************)
SerializeParameterValue(v) ==
    CASE v.t = "Null"    -> WNull
      [] v.t = "Bool"    -> WBool(v.b)
      [] v.t = "Number"  -> WireOfF64(v.n)
      [] v.t = "Integer" -> WInt(I64Value(v.i))
      [] v.t = "Float"   -> WireOfF64(v.f)
      [] v.t = "String"  -> WString(v.s)
      [] v.t = "Object"  -> WireFromValue(v.obj)
      [] v.t = "Array"   -> WList([i \in 1..Len(v.arr) |-> WireFromValue(v.arr[i])])

SerializeActionParameterValue(v) ==
    CASE v.t = "Null"    -> WNull
      [] v.t = "Boolean" -> WBool(v.b)
      [] v.t = "Integer" -> WInt(I64Value(v.i))
      [] v.t = "Float"   -> WireOfF64(v.f)
      [] v.t = "String"  -> WString(v.s)

(***************************************************************************)
(* common.rs: impl ParameterValue, the typed accessors (feature serde).    *)
(***************************************************************************)
as_bool(self)    == IF self.t = "Bool" THEN Some(self.b) ELSE None

\* a variant of as_number that answers for both f64 variants
as_number_or_float(self) ==
    IF self.t = "Number" THEN Some(self.n)
    ELSE IF self.t = "Float" THEN Some(self.f) ELSE None

as_number(self)  == IF self.t = "Number" THEN Some(self.n) ELSE None

as_integer(self) == IF self.t = "Integer" THEN Some(self.i) ELSE None

as_float(self)   == IF self.t = "Float" THEN Some(self.f) ELSE None

as_string(self)  == IF self.t = "String" THEN Some(self.s) ELSE None

as_object(self)  == IF self.t = "Object" THEN Some(self.obj) ELSE None

as_array(self)   == IF self.t = "Array" THEN Some(self.arr) ELSE None

\* a variant of is_null that looks into an Object
is_null_or_json_null(self) ==
    self.t = "Null" \/ (self.t = "Object" /\ self.obj.j = "Null")

is_null(self)    == self.t = "Null"

(***************************************************************************)
(* Display of the payload types, as get_value writes them with "{}".       *)
(***************************************************************************)
Digits == <<"0", "1", "2", "3", "4", "5", "6", "7", "8", "9">>

\* quotient and remainder of an unsigned 64-bit pattern by ten, limb by limb
Div10(b) ==
    LET c4 == b[4]
        c3 == (c4 % 10) * Limb + b[3]
        c2 == (c3 % 10) * Limb + b[2]
        c1 == (c2 % 10) * Limb + b[1]
    IN  <<c1 \div 10, c2 \div 10, c3 \div 10, c4 \div 10>>

Mod10(b) ==
    LET c3 == (b[4] % 10) * Limb + b[3]
        c2 == (c3 % 10) * Limb + b[2]
        c1 == (c2 % 10) * Limb + b[1]
    IN  c1 % 10

\* Display of u64: the decimal digits, most significant first
RECURSIVE DisplayU64(_)
DisplayU64(b) ==
    IF Div10(b) = Zero64 THEN <<Digits[Mod10(b) + 1]>>
    ELSE DisplayU64(Div10(b)) \o <<Digits[Mod10(b) + 1]>>

\* a variant of Display of i64 that writes the bits as an unsigned number
DisplayI64Unsigned(b) == DisplayU64(b)

\* Display of i64: a minus sign and the magnitude for a negative value
DisplayI64(b) ==
    IF b[4] >= Half THEN <<"-">> \o DisplayU64(Neg64(b)) ELSE DisplayU64(b)

DisplayBool(b) == IF b THEN <<"t", "r", "u", "e">> ELSE <<"f", "a", "l", "s", "e">>

\* the fraction digits of a finite sample (hundredths), without a trailing 0
FractionDigits(frac) ==
    IF frac % 10 = 0 THEN <<Digits[(frac \div 10) + 1]>>
    ELSE <<Digits[(frac \div 10) + 1], Digits[(frac % 10) + 1]>>

\* Display of f64: no fraction for a whole value, NaN and inf by name
DisplayF64(x) ==
    IF x.cls = "nan" THEN <<"N", "a", "N">>
    ELSE IF x.cls = "inf"
    THEN (IF x.neg THEN <<"-">> ELSE <<>>) \o <<"i", "n", "f">>
    ELSE (IF x.neg THEN <<"-">> ELSE <<>>)
         \o DisplayU64(Add64(Zero64, x.whole))
         \o (IF x.frac = 0 THEN <<>> ELSE <<".">> \o FractionDigits(x.frac))

\* serde_json writes a finite float with a fraction always ("42.0")
JsonF64(x) ==
    (IF x.neg THEN <<"-">> ELSE <<>>)
    \o DisplayU64(Add64(Zero64, x.whole)) \o <<".">> \o FractionDigits(x.frac)

\* serde_json's string literal: quoted, with quote and backslash escaped
RECURSIVE JsonEscape(_)
JsonEscape(s) ==
    IF s = <<>> THEN <<>>
    ELSE (IF Head(s) \in {"\"", "\\"} THEN <<"\\", Head(s)>> ELSE <<Head(s)>>)
         \o JsonEscape(Tail(s))

JsonString(s) == <<"\"">> \o JsonEscape(s) \o <<"\"">>

\* Display of serde_json::Value: compact JSON, a bare comma between items
RECURSIVE DisplayValue(_)
RECURSIVE DisplayItems(_, _)
RECURSIVE DisplayEntries(_, _)
DisplayItems(a, i) ==
    IF i > Len(a) THEN <<>>
    ELSE (IF i > 1 THEN <<",">> ELSE <<>>) \o DisplayValue(a[i])
         \o DisplayItems(a, i + 1)

DisplayEntries(m, i) ==
    IF i > Len(m) THEN <<>>
    ELSE (IF i > 1 THEN <<",">> ELSE <<>>)
         \o JsonString(m[i].k) \o <<":">> \o DisplayValue(m[i].v)
         \o DisplayEntries(m, i + 1)

DisplayValue(v) ==
    CASE v.j = "Null"   -> <<"n", "u", "l", "l">>
      [] v.j = "Bool"   -> DisplayBool(v.b)
      [] v.j = "Number" ->
           (CASE v.k = "PosInt" -> DisplayU64(v.u)
              [] v.k = "NegInt" -> DisplayI64(v.i)
              [] v.k = "Float"  -> JsonF64(v.f))
      [] v.j = "String" -> JsonString(v.s)
      [] v.j = "Array"  -> <<"[">> \o DisplayItems(v.arr, 1) \o <<"]">>
      [] v.j = "Object" -> <<"{">> \o DisplayEntries(v.map, 1) \o <<"}">>

(***************************************************************************)
(* common.rs: ParameterValue::get_value (feature serde).                   *)
(***************************************************************************)
\* a variant of the loop that separates the elements by a bare comma
RECURSIVE WriteElementsBareComma(_, _)
WriteElementsBareComma(arr, i) ==
    IF i > Len(arr) THEN <<>>
    ELSE (IF i > 1 THEN <<",">> ELSE <<>>) \o DisplayValue(arr[i])
         \o WriteElementsBareComma(arr, i + 1)

\* the loop over the elements of an Array: ", " before all but the first
RECURSIVE WriteElements(_, _)
WriteElements(arr, i) ==
    IF i > Len(arr) THEN <<>>
    ELSE (IF i > 1 THEN <<",", " ">> ELSE <<>>) \o DisplayValue(arr[i])
         \o WriteElements(arr, i + 1)

get_value(self) ==
    CASE self.t = "Null"    -> <<"n", "u", "l", "l">>
      [] self.t = "Bool"    -> DisplayBool(self.b)
      [] self.t = "Number"  -> DisplayF64(self.n)
      [] self.t = "Integer" -> DisplayI64(self.i)
      [] self.t = "Float"   -> DisplayF64(self.f)
      [] self.t = "String"  -> self.s
      [] self.t = "Object"  -> DisplayValue(self.obj)
      [] self.t = "Array"   -> <<"[">> \o WriteElements(self.arr, 1) \o <<"]">>

(***************************************************************************)
(* PartialEq: f64's own, serde_json::Value's, and the derived ones of the  *)
(* two enums and the two records.                                          *)
(***************************************************************************)
\* f64 == : NaN equals nothing, 0.0 equals -0.0
F64Eq(x, y) ==
    /\ x.cls # "nan"
    /\ y.cls # "nan"
    /\ \/ x = y
       \/ /\ x.cls = "finite" /\ y.cls = "finite"
          /\ x.whole = 0 /\ x.frac = 0 /\ y.whole = 0 /\ y.frac = 0

\* serde_json::Value == : same kind of value, equal contents; two maps are
\* equal when they hold the same keys with equal values
RECURSIVE ValueEq(_, _)
ValueEq(a, b) ==
    /\ a.j = b.j
    /\ CASE a.j = "Null"   -> TRUE
         [] a.j = "Bool"   -> a.b = b.b
         [] a.j = "Number" ->
              (/\ a.k = b.k
               /\ (CASE a.k = "PosInt" -> a.u = b.u
                      [] a.k = "NegInt" -> a.i = b.i
                      [] a.k = "Float"  -> F64Eq(a.f, b.f)))
         [] a.j = "String" -> a.s = b.s
         [] a.j = "Array"  ->
              (/\ Len(a.arr) = Len(b.arr)
               /\ \A i \in 1..Len(a.arr) : ValueEq(a.arr[i], b.arr[i]))
         [] a.j = "Object" ->
              (/\ Len(a.map) = Len(b.map)
               /\ \A i \in 1..Len(a.map) : \E k \in 1..Len(b.map) :
                     a.map[i].k = b.map[k].k /\ ValueEq(a.map[i].v, b.map[k].v))

\* a variant of the derived == that takes Number and Float for one variant
ParameterValueEqAcrossFloats(a, b) ==
    IF a.t \in {"Number", "Float"} /\ b.t \in {"Number", "Float"}
    THEN F64Eq(IF a.t = "Number" THEN a.n ELSE a.f, IF b.t = "Number" THEN b.n ELSE b.f)
    ELSE a = b

\* derive(PartialEq) for ParameterValue: the same variant, equal payloads
ParameterValueEq(a, b) ==
    /\ a.t = b.t
    /\ CASE a.t = "Null"    -> TRUE
         [] a.t = "Bool"    -> a.b = b.b
         [] a.t = "Number"  -> F64Eq(a.n, b.n)
         [] a.t = "Integer" -> a.i = b.i
         [] a.t = "Float"   -> F64Eq(a.f, b.f)
         [] a.t = "String"  -> a.s = b.s
         [] a.t = "Object"  -> ValueEq(a.obj, b.obj)
         [] a.t = "Array"   ->
              (/\ Len(a.arr) = Len(b.arr)
               /\ \A i \in 1..Len(a.arr) : ValueEq(a.arr[i], b.arr[i]))

\* derive(PartialEq) for ActionParameterValue
ActionParameterValueEq(a, b) ==
    /\ a.t = b.t
    /\ CASE a.t = "Null"    -> TRUE
         [] a.t = "Boolean" -> a.b = b.b
         [] a.t = "Integer" -> a.i = b.i
         [] a.t = "Float"   -> F64Eq(a.f, b.f)
         [] a.t = "String"  -> a.s = b.s

\* derive(PartialEq) for common::ActionParameter: field by field
ActionParameterEq(p, q) ==
    /\ p.key = q.key
    /\ p.value_data_type = q.value_data_type
    /\ ParameterValueEq(p.value, q.value)
    /\ p.description = q.description
    /\ p.is_optional = q.is_optional

\* derive(PartialEq) for action::ActionParameter
SimpleActionParameterEq(p, q) ==
    /\ p.key = q.key
    /\ ActionParameterValueEq(p.value, q.value)

(***************************************************************************)
(* serde's rename rules, computed on the Rust identifiers.                 *)
(***************************************************************************)
LowerLetters == <<"a", "b", "c", "d", "e", "f", "g", "h", "i", "j", "k", "l", "m",
                  "n", "o", "p", "q", "r", "s", "t", "u", "v", "w", "x", "y", "z">>
UpperLetters == <<"A", "B", "C", "D", "E", "F", "G", "H", "I", "J", "K", "L", "M",
                  "N", "O", "P", "Q", "R", "S", "T", "U", "V", "W", "X", "Y", "Z">>

IsUpper(c) == \E i \in 1..26 : UpperLetters[i] = c

ToUpper(c) ==
    IF \E i \in 1..26 : LowerLetters[i] = c
    THEN UpperLetters[CHOOSE i \in 1..26 : LowerLetters[i] = c]
    ELSE c

\* rename_all = "camelCase" on a snake_case field: the letter after each '_'
\* is capitalised and the '_' dropped
RECURSIVE CamelCase(_)
CamelCase(s) ==
    IF s = <<>> THEN <<>>
    ELSE IF Head(s) = "_" /\ Len(s) > 1
         THEN <<ToUpper(s[2])>> \o CamelCase(Tail(Tail(s)))
         ELSE <<Head(s)>> \o CamelCase(Tail(s))

\* rename_all = "SCREAMING_SNAKE_CASE" on a PascalCase variant: a '_' before
\* every capital but the first, and everything in upper case
RECURSIVE ScreamingSnakeFrom(_, _)
ScreamingSnakeFrom(s, first) ==
    IF s = <<>> THEN <<>>
    ELSE (IF IsUpper(Head(s)) /\ ~first THEN <<"_">> ELSE <<>>)
         \o <<ToUpper(Head(s))>> \o ScreamingSnakeFrom(Tail(s), FALSE)

ScreamingSnakeCase(s) == ScreamingSnakeFrom(s, TRUE)

(***************************************************************************)
(* common.rs: enum ValueDataType, written as its SCREAMING_SNAKE_CASE      *)
(* token.                                                                  *)
(***************************************************************************)
ValueDataType == {"Bool", "Number", "Integer", "Float", "String", "Object", "Array"}

VariantName(t) ==
    CASE t = "Bool"    -> <<"B", "o", "o", "l">>
      [] t = "Number"  -> <<"N", "u", "m", "b", "e", "r">>
      [] t = "Integer" -> <<"I", "n", "t", "e", "g", "e", "r">>
      [] t = "Float"   -> <<"F", "l", "o", "a", "t">>
      [] t = "String"  -> <<"S", "t", "r", "i", "n", "g">>
      [] t = "Object"  -> <<"O", "b", "j", "e", "c", "t">>
      [] t = "Array"   -> <<"A", "r", "r", "a", "y">>

ValueDataTypeToken(t) == ScreamingSnakeCase(VariantName(t))

(***************************************************************************)
(* Option<T> as a record field: None is written as null, Some(x) as x.     *)
(***************************************************************************)
\* a variant that writes the hint by the name of the Rust variant
SerializeOptionTypeByVariantName(o) ==
    IF o.some THEN WString(VariantName(o.v)) ELSE WNull

SerializeOptionType(o)   == IF o.some THEN WString(ValueDataTypeToken(o.v)) ELSE WNull
SerializeOptionString(o) == IF o.some THEN WString(o.v) ELSE WNull
SerializeOptionBool(o)   == IF o.some THEN WBool(o.v) ELSE WNull
SerializeOptionF64(o)    == IF o.some THEN WireOfF64(o.v) ELSE WNull

Field(name, w) == [k |-> name, v |-> w]

\* the Rust field identifiers
F_key             == <<"k", "e", "y">>
F_value_data_type == <<"v", "a", "l", "u", "e", "_", "d", "a", "t", "a", "_", "t", "y", "p", "e">>
F_value           == <<"v", "a", "l", "u", "e">>
F_description     == <<"d", "e", "s", "c", "r", "i", "p", "t", "i", "o", "n">>
F_is_optional     == <<"i", "s", "_", "o", "p", "t", "i", "o", "n", "a", "l">>
F_vx              == <<"v", "x">>
F_vy              == <<"v", "y">>
F_omega           == <<"o", "m", "e", "g", "a">>

(***************************************************************************)
(* common.rs: struct ActionParameter.  Serialize is derived at the         *)
(* cfg_attr that precedes skip_serializing_none, so the derive sees the    *)
(* fields without any skip_serializing_if: all five fields are written, in *)
(* declaration order, under their camelCase names.                         *)
(***************************************************************************)
ActionParameter(key, value_data_type, value, description, is_optional) ==
    [key |-> key, value_data_type |-> value_data_type, value |-> value,
     description |-> description, is_optional |-> is_optional]

\* a variant of the derived Serialize in which skip_serializing_none is in
\* effect: a None field is left out
SkipNone(name, o, w) == IF o.some THEN <<Field(name, w)>> ELSE <<>>

SerializeActionParameterSkippingNone(p) ==
    WMap(<<Field(CamelCase(F_key), WString(p.key))>>
         \o SkipNone(CamelCase(F_value_data_type), p.value_data_type,
                     SerializeOptionType(p.value_data_type))
         \o <<Field(CamelCase(F_value), SerializeParameterValue(p.value))>>
         \o SkipNone(CamelCase(F_description), p.description,
                     SerializeOptionString(p.description))
         \o SkipNone(CamelCase(F_is_optional), p.is_optional,
                     SerializeOptionBool(p.is_optional)))

SerializeActionParameter(p) ==
    WMap(<<Field(CamelCase(F_key), WString(p.key)),
           Field(CamelCase(F_value_data_type), SerializeOptionType(p.value_data_type)),
           Field(CamelCase(F_value), SerializeParameterValue(p.value)),
           Field(CamelCase(F_description), SerializeOptionString(p.description)),
           Field(CamelCase(F_is_optional), SerializeOptionBool(p.is_optional))>>)

\* a variant of the default whose value is the empty string
ActionParameterDefaultEmptyString ==
    ActionParameter(<<>>, None, PvString(<<>>), None, None)

ActionParameterDefault == ActionParameter(<<>>, None, PvNull, None, None)

(***************************************************************************)
(* common.rs: struct Velocity, three optional fields, derived the same way.*)
(***************************************************************************)
Velocity(vx, vy, omega) == [vx |-> vx, vy |-> vy, omega |-> omega]

SerializeVelocity(p) ==
    WMap(<<Field(CamelCase(F_vx), SerializeOptionF64(p.vx)),
           Field(CamelCase(F_vy), SerializeOptionF64(p.vy)),
           Field(CamelCase(F_omega), SerializeOptionF64(p.omega))>>)

(***************************************************************************)
(* action.rs: struct ActionParameter (key and value only).                 *)
(***************************************************************************)
SimpleActionParameter(key, value) == [key |-> key, value |-> value]

SerializeSimpleActionParameter(p) ==
    WMap(<<Field(CamelCase(F_key), WString(p.key)),
           Field(CamelCase(F_value), SerializeActionParameterValue(p.value))>>)

(***************************************************************************)
(* The derived Deserialize of the plain fields.                            *)
(***************************************************************************)
DeserializeString(w) ==
    IF w.shape = "string" THEN Ok(w.s) ELSE Err("invalid type: expected a string")

DeserializeOptionString(w) ==
    IF w.shape = "null" THEN Ok(None)
    ELSE IF w.shape = "string" THEN Ok(Some(w.s))
    ELSE Err("invalid type: expected a string")

DeserializeOptionBool(w) ==
    IF w.shape = "null" THEN Ok(None)
    ELSE IF w.shape = "bool" THEN Ok(Some(w.b))
    ELSE Err("invalid type: expected a boolean")

DeserializeOptionType(w) ==
    IF w.shape = "null" THEN Ok(None)
    ELSE IF w.shape # "string" THEN Err("invalid type: expected a variant")
    ELSE IF \E t \in ValueDataType : ValueDataTypeToken(t) = w.s
         THEN Ok(Some(CHOOSE t \in ValueDataType : ValueDataTypeToken(t) = w.s))
         ELSE Err("unknown variant")

(***************************************************************************)
(* common.rs: the derived Deserialize of struct ActionParameter, on a wire *)
(* key-map.  The entries are read in order; an unknown key is skipped, a   *)
(* repeated field is an error; value goes through                        *)
(* deserialize_parameter_value, with c the Visitor call made for its wire  *)
(* value.  Afterwards a missing Option field is None, a missing key or   *)
(* value is an error.                                                    *)
(***************************************************************************)
NoFields == [key |-> None, value_data_type |-> None, value |-> None,
             description |-> None, is_optional |-> None]

\* a variant of the last step that holds the value against the hint
FinishActionParameterCheckingHint(acc) ==
    IF ~acc.key.some THEN Err("missing field key")
    ELSE IF ~acc.value.some THEN Err("missing field value")
    ELSE IF /\ acc.value_data_type.some
            /\ acc.value_data_type.v.some
            /\ acc.value_data_type.v.v # acc.value.v.t
    THEN Err("value does not match valueDataType")
    ELSE Ok(ActionParameter(acc.key.v,
                            IF acc.value_data_type.some THEN acc.value_data_type.v ELSE None,
                            acc.value.v,
                            IF acc.description.some THEN acc.description.v ELSE None,
                            IF acc.is_optional.some THEN acc.is_optional.v ELSE None))

FinishActionParameter(acc) ==
    IF ~acc.key.some THEN Err("missing field key")
    ELSE IF ~acc.value.some THEN Err("missing field value")
    ELSE Ok(ActionParameter(acc.key.v,
                            IF acc.value_data_type.some THEN acc.value_data_type.v ELSE None,
                            acc.value.v,
                            IF acc.description.some THEN acc.description.v ELSE None,
                            IF acc.is_optional.some THEN acc.is_optional.v ELSE None))

RECURSIVE VisitActionParameter(_, _, _)
VisitActionParameter(es, acc, c) ==
    IF es = <<>> THEN FinishActionParameter(acc)
    ELSE LET e == Head(es)
             rest == Tail(es)
         IN  IF e.k = CamelCase(F_key) THEN
                 IF acc.key.some THEN Err("duplicate field key")
                 ELSE LET r == DeserializeString(e.v)
                      IN  IF r.ok
                          THEN VisitActionParameter(rest, [acc EXCEPT !.key = Some(r.val)], c)
                          ELSE r
             ELSE IF e.k = CamelCase(F_value_data_type) THEN
                 IF acc.value_data_type.some THEN Err("duplicate field valueDataType")
                 ELSE LET r == DeserializeOptionType(e.v)
                      IN  IF r.ok
                          THEN VisitActionParameter(rest, [acc EXCEPT !.value_data_type = Some(r.val)], c)
                          ELSE r
             ELSE IF e.k = CamelCase(F_value) THEN
                 IF acc.value.some THEN Err("duplicate field value")
                 ELSE LET r == deserialize_parameter_value(c)
                      IN  IF r.ok
                          THEN VisitActionParameter(rest, [acc EXCEPT !.value = Some(r.val)], c)
                          ELSE r
             ELSE IF e.k = CamelCase(F_description) THEN
                 IF acc.description.some THEN Err("duplicate field description")
                 ELSE LET r == DeserializeOptionString(e.v)
                      IN  IF r.ok
                          THEN VisitActionParameter(rest, [acc EXCEPT !.description = Some(r.val)], c)
                          ELSE r
             ELSE IF e.k = CamelCase(F_is_optional) THEN
                 IF acc.is_optional.some THEN Err("duplicate field isOptional")
                 ELSE LET r == DeserializeOptionBool(e.v)
                      IN  IF r.ok
                          THEN VisitActionParameter(rest, [acc EXCEPT !.is_optional = Some(r.val)], c)
                          ELSE r
             ELSE VisitActionParameter(rest, acc, c)

DeserializeActionParameter(w, c) == VisitActionParameter(w.entries, NoFields, c)

(***************************************************************************)
(* action.rs: the derived Deserialize of struct ActionParameter.           *)
(***************************************************************************)
NoSimpleFields == [key |-> None, value |-> None]

\* a variant of the last step that takes a missing value for Null
FinishSimpleActionParameterDefaultingValue(acc) ==
    IF ~acc.key.some THEN Err("missing field key")
    ELSE Ok(SimpleActionParameter(acc.key.v, IF acc.value.some THEN acc.value.v ELSE ApvNull))

FinishSimpleActionParameter(acc) ==
    IF ~acc.key.some THEN Err("missing field key")
    ELSE IF ~acc.value.some THEN Err("missing field value")
    ELSE Ok(SimpleActionParameter(acc.key.v, acc.value.v))

RECURSIVE VisitSimpleActionParameter(_, _, _)
VisitSimpleActionParameter(es, acc, c) ==
    IF es = <<>> THEN FinishSimpleActionParameter(acc)
    ELSE LET e == Head(es)
             rest == Tail(es)
         IN  IF e.k = CamelCase(F_key) THEN
                 IF acc.key.some THEN Err("duplicate field key")
                 ELSE LET r == DeserializeString(e.v)
                      IN  IF r.ok
                          THEN VisitSimpleActionParameter(rest, [acc EXCEPT !.key = Some(r.val)], c)
                          ELSE r
             ELSE IF e.k = CamelCase(F_value) THEN
                 IF acc.value.some THEN Err("duplicate field value")
                 ELSE LET r == deserialize_value(c)
                      IN  IF r.ok
                          THEN VisitSimpleActionParameter(rest, [acc EXCEPT !.value = Some(r.val)], c)
                          ELSE r
             ELSE VisitSimpleActionParameter(rest, acc, c)

DeserializeSimpleActionParameter(w, c) ==
    VisitSimpleActionParameter(w.entries, NoSimpleFields, c)

\* the wire value of the first value entry of a wire record, if any
ValueEntries(w) == {i \in 1..Len(w.entries) : w.entries[i].k = CamelCase(F_value)}

HasValueEntry(w) == ValueEntries(w) # {}

FirstValue(w) ==
    w.entries[CHOOSE i \in ValueEntries(w) : \A j \in ValueEntries(w) : i <= j].v

\* the Visitor calls the deserializer may make for the value of a record
ValueCalls(w) == IF HasValueEntry(w) THEN deserialize_any(FirstValue(w)) ELSE {Call("none")}

(***************************************************************************)
(* The inputs of the model.                                                *)
(***************************************************************************)
Exps == {0, 7, 8, 15, 16, 31, 32, 63}

\* the magnitudes around the boundaries of the integer types, 42, and the
\* top of the u64 range
Magnitudes ==
    {Add64(Pow2(k), d) : k \in Exps, d \in (-Delta)..Delta}
    \cup {Add64(Zero64, -d) : d \in 1..Delta}
    \cup {Add64(Zero64, 42)}

\* the integer literals of the 64-bit range: -2^63 .. 2^64 - 1
WireInts ==
    {WInt(Pos(m)) : m \in Magnitudes}
    \cup {WInt(Neg(m)) : m \in {x \in Magnitudes : LessEq64(x, Pow2(63))}}

F64Finite ==
    {Finite(neg, w, f) : neg \in BOOLEAN, w \in (0..MaxWhole) \cup {42}, f \in {0, 50, 73}}

NaN == [cls |-> "nan", neg |-> FALSE, whole |-> 0, frac |-> 0]
Infinity(neg) == [cls |-> "inf", neg |-> neg, whole |-> 0, frac |-> 0]

F64Samples == F64Finite \cup {NaN, Infinity(FALSE), Infinity(TRUE)}

TextSamples == {<<>>, <<"a">>, <<"n", "u", "l", "l">>, <<"4", "2">>, <<"a", ",", " ", "b">>}

KeySamples == {<<"a">>, <<"b">>}

LeafWires ==
    {WNull, WBool(TRUE), WInt(Pos(Add64(Zero64, 1))), WInt(Pos(Pow2(63))),
     WFloat(Finite(FALSE, 1, 50)), WString(<<"a">>)}

SeqsUpTo(S, n) == UNION {[1..k -> S] : k \in 0..n}

WireLists == {WList(xs) : xs \in SeqsUpTo(LeafWires, MaxItems)}

WireEntries == {Field(k, v) : k \in KeySamples, v \in LeafWires}

WireMaps == {WMap(es) : es \in SeqsUpTo(WireEntries, MaxItems)}

NestedWires ==
    {WList(<<WList(<<WNull>>), WString(<<"a">>)>>),
     WList(<<WMap(<<Field(<<"a">>, WNull)>>)>>),
     WMap(<<Field(<<"b">>, WList(<<WBool(TRUE), WNull>>)), Field(<<"a">>, WMap(<<>>))>>)}

ScalarWires ==
    {WNull, WBool(TRUE), WBool(FALSE)} \cup WireInts
    \cup {WFloat(x) : x \in F64Finite} \cup {WString(s) : s \in TextSamples}

WireValues == ScalarWires \cup WireLists \cup WireMaps \cup NestedWires

\* a deserializer positioned at the wire value w, which will make the call c
Deserializers ==
    UNION {{[t |-> "wire", w |-> w, c |-> c] : c \in deserialize_any(w)} : w \in WireValues}

\* values a caller constructs
I64Samples == {Encode2c(w.n, 64) : w \in {x \in WireInts : FitsSigned(x.n, 64)}}

JLeaves ==
    {JNull, JBool(TRUE), JPosInt(Add64(Zero64, 1)), JNegInt(Add64(Zero64, -1)),
     JFloat(Finite(FALSE, 1, 50)), JString(<<"a">>)}

JArrays == SeqsUpTo(JLeaves, MaxItems)

JSamples ==
    JLeaves \cup {JArray(a) : a \in JArrays}
    \cup {JObject(<<>>), JObject(<<Field(<<"a">>, JNull)>>),
          JObject(<<Field(<<"a">>, JBool(TRUE)), Field(<<"b">>, JArray(<<JNull>>))>>)}

\* arrays whose elements are containers or text with a comma in it
JNestedArrays ==
    {<<JArray(<<JNull, JBool(TRUE)>>), JPosInt(Add64(Zero64, 1))>>,
     <<JObject(<<Field(<<"a">>, JNull), Field(<<"b">>, JArray(<<JNull, JNull>>))>>)>>,
     <<JString(<<"a", ",", " ", "b">>), JString(<<"\"", "]">>), JNull>>}

ParameterValues ==
    {PvNull, PvBool(TRUE), PvBool(FALSE)}
    \cup {PvNumber(x) : x \in F64Samples}
    \cup {PvInteger(i) : i \in I64Samples}
    \cup {PvFloat(x) : x \in F64Samples}
    \cup {PvString(s) : s \in TextSamples}
    \cup {PvObject(o) : o \in JSamples}
    \cup {PvArray(a) : a \in JArrays \cup JNestedArrays}

ActionParameterValues ==
    {ApvNull, ApvBoolean(TRUE), ApvBoolean(FALSE)}
    \cup {ApvInteger(i) : i \in I64Samples}
    \cup {ApvFloat(x) : x \in F64Samples}
    \cup {ApvString(s) : s \in TextSamples}

\* the values held by the sampled records
RecordValues ==
    {PvNull, PvBool(TRUE), PvNumber(Finite(FALSE, 42, 0)), PvNumber(NaN),
     PvInteger(Add64(Zero64, 42)), PvInteger(Add64(Zero64, -1)), PvInteger(Pow2(63)),
     PvFloat(Finite(FALSE, 42, 0)), PvFloat(Finite(TRUE, 0, 73)), PvFloat(Infinity(FALSE)),
     PvString(<<>>), PvString(<<"n", "u", "l", "l">>),
     PvObject(JNull), PvObject(JObject(<<Field(<<"a">>, JNull)>>)),
     PvArray(<<>>), PvArray(<<JNull, JPosInt(Add64(Zero64, 1))>>)}

OptionOf(S) == {None} \cup {Some(x) : x \in S}

ActionParameters ==
    {ActionParameter(k, t, v, d, o) :
        k \in {<<>>, <<"k">>}, t \in OptionOf(ValueDataType), v \in RecordValues,
        d \in OptionOf({<<"d">>}), o \in OptionOf(BOOLEAN)}

SimpleActionParameters ==
    {SimpleActionParameter(k, v) : k \in {<<>>, <<"k">>}, v \in ActionParameterValues}

Velocities ==
    {Velocity(x, y, o) :
        x \in OptionOf({Finite(FALSE, 1, 50)}), y \in OptionOf({Finite(TRUE, 0, 0)}),
        o \in OptionOf({Finite(FALSE, 0, 25), NaN})}

\* wire objects handed to the record decoders: each field absent or present
\* with one of a few wire values, the fields in declaration order, possibly
\* followed by an unknown field or a second value
Absent == [shape |-> "absent"]

Present(name, w) == IF w.shape = "absent" THEN <<>> ELSE <<Field(name, w)>>

RecordWireValues ==
    {WNull, WBool(TRUE), WInt(Pos(Add64(Zero64, 42))), WInt(Pos(Pow2(63))),
     WFloat(Finite(FALSE, 42, 0)), WString(<<"n", "u", "l", "l">>),
     WList(<<WNull>>), WMap(<<Field(<<"a">>, WNull)>>)}

\* description and isOptional, as they come together
MetaWires ==
    {<<Absent, Absent>>, <<WNull, WNull>>, <<WString(<<"d">>), WBool(FALSE)>>,
     <<Absent, WBool(TRUE)>>}

Trailers ==
    {<<>>, <<Field(<<"x">>, WBool(TRUE))>>, <<Field(CamelCase(F_value), WNull)>>}

WireRecords ==
    {WMap(Present(CamelCase(F_key), k) \o Present(CamelCase(F_value_data_type), t)
          \o Present(CamelCase(F_value), v) \o Present(CamelCase(F_description), m[1])
          \o Present(CamelCase(F_is_optional), m[2]) \o x) :
        k \in {Absent, WString(<<"k">>)},
        t \in {Absent, WNull, WString(<<"x">>), WInt(Pos(Zero64))}
              \cup {WString(ValueDataTypeToken(n)) : n \in ValueDataType},
        v \in {Absent} \cup RecordWireValues,
        m \in MetaWires,
        x \in Trailers}

RecordDeserializers ==
    UNION {{[t |-> "wire_record", w |-> w, c |-> c] : c \in ValueCalls(w)} : w \in WireRecords}

\* the values and records compared with ==
EqValues ==
    RecordValues
    \cup {PvNumber(Finite(FALSE, 0, 0)), PvFloat(Finite(FALSE, 0, 0)), PvFloat(Finite(TRUE, 0, 0)),
          PvFloat(NaN), PvInteger(Add64(Zero64, 43)), PvString(<<"4", "2">>),
          PvObject(JObject(<<Field(<<"a">>, JBool(TRUE))>>)), PvArray(<<JNull>>)}

SimpleEqValues ==
    {ApvNull, ApvBoolean(TRUE), ApvBoolean(FALSE), ApvInteger(Add64(Zero64, 42)),
     ApvInteger(Add64(Zero64, 43)), ApvFloat(Finite(FALSE, 42, 0)), ApvFloat(Finite(FALSE, 0, 0)),
     ApvFloat(Finite(TRUE, 0, 0)), ApvFloat(NaN), ApvString(<<"4", "2">>)}

EqRecords ==
    {ActionParameter(k, t, v, d, o) :
        k \in {<<>>, <<"k">>}, t \in {None, Some("String"), Some("Float")},
        v \in {PvNull, PvNumber(Finite(FALSE, 42, 0)), PvFloat(Finite(FALSE, 42, 0))},
        d \in OptionOf({<<"d">>}), o \in {None, Some(FALSE)}}

SimpleEqRecords ==
    {SimpleActionParameter(k, v) :
        k \in {<<>>, <<"k">>}, v \in {ApvBoolean(TRUE), ApvBoolean(FALSE), ApvNull}}

Inputs ==
    Deserializers
    \cup {[t |-> "value", v |-> v] : v \in ParameterValues}
    \cup {[t |-> "simple_value", v |-> v] : v \in ActionParameterValues}
    \cup {[t |-> "record", p |-> p] : p \in ActionParameters}
    \cup {[t |-> "simple_record", p |-> p] : p \in SimpleActionParameters}
    \cup {[t |-> "velocity", p |-> p] : p \in Velocities}
    \cup RecordDeserializers
    \cup {[t |-> "pair", a |-> a, b |-> b] : a \in EqValues, b \in EqValues}
    \cup {[t |-> "simple_pair", a |-> a, b |-> b] : a \in SimpleEqValues, b \in SimpleEqValues}
    \cup {[t |-> "record_pair", a |-> a, b |-> b] : a \in EqRecords, b \in EqRecords}
    \cup {[t |-> "simple_record_pair", a |-> a, b |-> b] :
             a \in SimpleEqRecords, b \in SimpleEqRecords}
    \cup {[t |-> "default"]}

(***************************************************************************)
(* The state machine: the caller hands in one input, and the operations    *)
(* that apply to it are run on it.                                         *)
(***************************************************************************)
Nothing == [t |-> "none"]

Init ==
    /\ input \in Inputs
    /\ decoded = Nothing
    /\ encoded = Nothing
    /\ simple = Nothing
    /\ simpleEncoded = Nothing
    /\ probe = Nothing
    /\ recordWire = Nothing
    /\ recordDecoded = Nothing
    /\ simpleRecordDecoded = Nothing
    /\ equal = Nothing
    /\ built = Nothing
    /\ untagged = Nothing

\* common.rs: deserialize_parameter_value(deserializer), on the caller's
\* deserializer or on the wire value written for the caller's value
DecodeParameterValue ==
    /\ decoded = Nothing
    /\ \/ /\ input.t = "wire"
          /\ decoded' = deserialize_parameter_value(input.c)
       \/ /\ input.t = "value"
          /\ encoded # Nothing
          /\ \E c \in deserialize_any(encoded) :
                decoded' = deserialize_parameter_value(c)
    /\ UNCHANGED <<input, untagged, encoded, simple, simpleEncoded, probe, recordWire,
                   recordDecoded, simpleRecordDecoded, equal, built>>

\* action.rs: deserialize_value(deserializer)
DecodeActionParameterValue ==
    /\ simple = Nothing
    /\ \/ /\ input.t = "wire"
          /\ simple' = deserialize_value(input.c)
       \/ /\ input.t = "simple_value"
          /\ simpleEncoded # Nothing
          /\ \E c \in deserialize_any(simpleEncoded) :
                simple' = deserialize_value(c)
    /\ UNCHANGED <<input, untagged, decoded, encoded, simpleEncoded, probe, recordWire,
                   recordDecoded, simpleRecordDecoded, equal, built>>

\* ParameterValue::serialize, on a decoded value or on one the caller built
EncodeParameterValue ==
    /\ encoded = Nothing
    /\ \/ /\ input.t = "wire"
          /\ decoded # Nothing
          /\ decoded.ok
          /\ encoded' = SerializeParameterValue(decoded.val)
       \/ /\ input.t = "value"
          /\ encoded' = SerializeParameterValue(input.v)
    /\ UNCHANGED <<input, untagged, decoded, simple, simpleEncoded, probe, recordWire,
                   recordDecoded, simpleRecordDecoded, equal, built>>

\* ActionParameterValue::serialize
EncodeActionParameterValue ==
    /\ simpleEncoded = Nothing
    /\ \/ /\ input.t = "wire"
          /\ simple # Nothing
          /\ simple.ok
          /\ simpleEncoded' = SerializeActionParameterValue(simple.val)
       \/ /\ input.t = "simple_value"
          /\ simpleEncoded' = SerializeActionParameterValue(input.v)
    /\ UNCHANGED <<input, untagged, decoded, encoded, simple, probe, recordWire,
                   recordDecoded, simpleRecordDecoded, equal, built>>

\* is_null, the seven accessors and get_value, asked of the caller's value or
\* of the value of the default record
Probe ==
    /\ probe = Nothing
    /\ \/ input.t = "value"
       \/ input.t = "default" /\ built # Nothing
    /\ LET self == IF input.t = "value" THEN input.v ELSE built.value
       IN  probe' = [t |-> "probe",
                     is_null |-> is_null(self),
                     as_bool |-> as_bool(self),
                     as_number |-> as_number(self),
                     as_integer |-> as_integer(self),
                     as_float |-> as_float(self),
                     as_string |-> as_string(self),
                     as_object |-> as_object(self),
                     as_array |-> as_array(self),
                     get_value |-> get_value(self)]
    /\ UNCHANGED <<input, untagged, decoded, encoded, simple, simpleEncoded, recordWire,
                   recordDecoded, simpleRecordDecoded, equal, built>>

\* the derived Serialize of the three records
EncodeRecord ==
    /\ recordWire = Nothing
    /\ \/ /\ input.t = "record"
          /\ recordWire' = SerializeActionParameter(input.p)
       \/ /\ input.t = "simple_record"
          /\ recordWire' = SerializeSimpleActionParameter(input.p)
       \/ /\ input.t = "velocity"
          /\ recordWire' = SerializeVelocity(input.p)
    /\ UNCHANGED <<input, untagged, decoded, encoded, simple, simpleEncoded, probe,
                   recordDecoded, simpleRecordDecoded, equal, built>>

\* the derived Deserialize of common::ActionParameter, on the caller's wire
\* object or on the one written for the caller's record
DecodeRecord ==
    /\ recordDecoded = Nothing
    /\ \/ /\ input.t = "wire_record"
          /\ recordDecoded' = DeserializeActionParameter(input.w, input.c)
       \/ /\ input.t = "record"
          /\ recordWire # Nothing
          /\ \E c \in ValueCalls(recordWire) :
                recordDecoded' = DeserializeActionParameter(recordWire, c)
    /\ UNCHANGED <<input, untagged, decoded, encoded, simple, simpleEncoded, probe,
                   recordWire, simpleRecordDecoded, equal, built>>

\* the derived Deserialize of action::ActionParameter
DecodeSimpleRecord ==
    /\ simpleRecordDecoded = Nothing
    /\ \/ /\ input.t = "wire_record"
          /\ simpleRecordDecoded' = DeserializeSimpleActionParameter(input.w, input.c)
       \/ /\ input.t = "simple_record"
          /\ recordWire # Nothing
          /\ \E c \in ValueCalls(recordWire) :
                simpleRecordDecoded' = DeserializeSimpleActionParameter(recordWire, c)
    /\ UNCHANGED <<input, untagged, decoded, encoded, simple, simpleEncoded, probe,
                   recordWire, recordDecoded, equal, built>>

\* == on two values or two records of one type
Compare ==
    /\ equal = Nothing
    /\ \/ /\ input.t = "pair"
          /\ equal' = [t |-> "eq", eq |-> ParameterValueEq(input.a, input.b)]
       \/ /\ input.t = "simple_pair"
          /\ equal' = [t |-> "eq", eq |-> ActionParameterValueEq(input.a, input.b)]
       \/ /\ input.t = "record_pair"
          /\ equal' = [t |-> "eq", eq |-> ActionParameterEq(input.a, input.b)]
       \/ /\ input.t = "simple_record_pair"
          /\ equal' = [t |-> "eq", eq |-> SimpleActionParameterEq(input.a, input.b)]
    /\ UNCHANGED <<input, untagged, decoded, encoded, simple, simpleEncoded, probe,
                   recordWire, recordDecoded, simpleRecordDecoded, built>>

\* common.rs: ActionParameter::default()
Default ==
    /\ input.t = "default"
    /\ built = Nothing
    /\ built' = ActionParameterDefault
    /\ UNCHANGED <<input, untagged, decoded, encoded, simple, simpleEncoded, probe,
                   recordWire, recordDecoded, simpleRecordDecoded, equal>>

\* common.rs: <ParameterValue as Deserialize>::deserialize(deserializer), the
\* derived untagged decoder, on the caller's deserializer
DecodeUntagged ==
    /\ input.t = "wire"
    /\ untagged = Nothing
    /\ untagged' = DeserializeParameterValue(input.c)
    /\ UNCHANGED <<input, decoded, encoded, simple, simpleEncoded, probe,
                   recordWire, recordDecoded, simpleRecordDecoded, equal, built>>

Next ==
    \/ DecodeParameterValue
    \/ DecodeUntagged
    \/ DecodeActionParameterValue
    \/ EncodeParameterValue
    \/ EncodeActionParameterValue
    \/ Probe
    \/ EncodeRecord
    \/ DecodeRecord
    \/ DecodeSimpleRecord
    \/ Compare
    \/ Default

Spec == Init /\ [][Next]_vars

(***************************************************************************)
(* Properties.                                                             *)
(***************************************************************************)
IsWire == input.t = "wire"

\* C1: for every scalar wire value w (null, boolean, integer, float, string),
\* decoding w with deserialize_parameter_value and encoding the result gives a
\* wire value equal to w, of the same shape.
C1_ScalarRoundTrip ==
    (IsWire /\ input.w.shape \in ScalarShapes /\ encoded # Nothing)
        => encoded = input.w

\* C2: an integer literal n of the i64 range decodes to Integer(n), with the
\* same number, through every integer type it is delivered in, never to Float or
\* Number; a literal with a fraction decodes to Float of that value.
C2_IntegerAndFloatClassified ==
    (IsWire /\ decoded # Nothing) =>
        /\ (input.w.shape = "int" /\ InI64Range(input.w.n)) =>
               /\ decoded.ok
               /\ decoded.val.t = "Integer"
               /\ I64Value(decoded.val.i) = input.w.n
        /\ input.w.shape = "float" =>
               /\ decoded.ok
               /\ decoded.val.t = "Float"
               /\ decoded.val.f = input.w.x

\* an integer of the upper half of the u32 range, delivered as u32, was decoded
C2_Witness ==
    /\ IsWire
    /\ input.c.m = "visit_u32"
    /\ input.c.bits[2] >= Half
    /\ decoded # Nothing

\* C3: a wire number beyond the i64 range never decodes to Integer, in either
\* decoder, and a decoded Integer always holds the number of the wire.
C3_NoWrappedInteger ==
    (IsWire /\ input.w.shape = "int") =>
        /\ decoded # Nothing =>
               /\ decoded.ok
               /\ IF InI64Range(input.w.n)
                  THEN decoded.val.t = "Integer" /\ I64Value(decoded.val.i) = input.w.n
                  ELSE decoded.val.t = "Float"
        /\ simple # Nothing =>
               /\ simple.ok
               /\ IF InI64Range(input.w.n)
                  THEN simple.val.t = "Integer" /\ I64Value(simple.val.i) = input.w.n
                  ELSE simple.val.t = "Float"

\* C4: deserialize_parameter_value returns a value, never an error, for every
\* wire value: null -> Null, boolean -> Bool, number -> Integer or Float,
\* string -> String, key-map -> Object, list -> Array.
C4_DecoderTotal ==
    (IsWire /\ decoded # Nothing) =>
        /\ decoded.ok
        /\ decoded.val.t \in
              ( CASE input.w.shape = "null"   -> {"Null"}
                  [] input.w.shape = "bool"   -> {"Bool"}
                  [] input.w.shape = "int"    -> {"Integer", "Float"}
                  [] input.w.shape = "float"  -> {"Integer", "Float"}
                  [] input.w.shape = "string" -> {"String"}
                  [] input.w.shape = "map"    -> {"Object"}
                  [] input.w.shape = "list"   -> {"Array"} )
        /\ input.w.shape = "bool" => decoded.val.b = input.w.b
        /\ input.w.shape = "string" => decoded.val.s = input.w.s
        /\ input.w.shape = "map" => decoded.val.obj.j = "Object"
        /\ input.w.shape = "list" => Len(decoded.val.arr) = Len(input.w.items)

\* a non-empty key-map was decoded
C4_Witness ==
    /\ IsWire
    /\ input.w.shape = "map"
    /\ Len(input.w.entries) = MaxItems
    /\ decoded # Nothing

\* a wire record every plain field of which is acceptable to its decoder: the
\* key once, as a string, and no field twice
KeysOf(w) == [i \in 1..Len(w.entries) |-> w.entries[i].k]

Count(w, name) == Cardinality({i \in 1..Len(w.entries) : w.entries[i].k = name})

SimpleFieldsFine(w) ==
    /\ Count(w, CamelCase(F_key)) = 1
    /\ \A i \in 1..Len(w.entries) :
           w.entries[i].k = CamelCase(F_key) => w.entries[i].v.shape = "string"
    /\ Count(w, CamelCase(F_value)) = 1

EntriesNamed(w, name) == {i \in 1..Len(w.entries) : w.entries[i].k = name}

\* C6: when a common::ActionParameter or a sibling record (Velocity) is
\* encoded, an optional field that is None does not appear in the wire object.
C6_NoneFieldsOmitted ==
    /\ (input.t = "record" /\ recordWire # Nothing) =>
           /\ ~input.p.value_data_type.some =>
                  EntriesNamed(recordWire, <<"v", "a", "l", "u", "e", "D", "a", "t", "a", "T", "y", "p", "e">>) = {}
           /\ ~input.p.description.some =>
                  EntriesNamed(recordWire, <<"d", "e", "s", "c", "r", "i", "p", "t", "i", "o", "n">>) = {}
           /\ ~input.p.is_optional.some =>
                  EntriesNamed(recordWire, <<"i", "s", "O", "p", "t", "i", "o", "n", "a", "l">>) = {}
    /\ (input.t = "velocity" /\ recordWire # Nothing) =>
           /\ ~input.p.vx.some => EntriesNamed(recordWire, <<"v", "x">>) = {}
           /\ ~input.p.vy.some => EntriesNamed(recordWire, <<"v", "y">>) = {}
           /\ ~input.p.omega.some => EntriesNamed(recordWire, <<"o", "m", "e", "g", "a">>) = {}

\* C7: an encoded common::ActionParameter has exactly the five fields key,
\* valueDataType, value, description, isOptional, in that order; a None field
\* is written as that field with null, a present hint as its upper-case token.
C7_FiveFieldsInOrder ==
    (input.t = "record" /\ recordWire # Nothing) =>
        /\ recordWire.shape = "map"
        /\ KeysOf(recordWire) =
               << <<"k", "e", "y">>,
                  <<"v", "a", "l", "u", "e", "D", "a", "t", "a", "T", "y", "p", "e">>,
                  <<"v", "a", "l", "u", "e">>,
                  <<"d", "e", "s", "c", "r", "i", "p", "t", "i", "o", "n">>,
                  <<"i", "s", "O", "p", "t", "i", "o", "n", "a", "l">> >>
        /\ recordWire.entries[1].v = WString(input.p.key)
        /\ ~input.p.value_data_type.some => recordWire.entries[2].v = WNull
        /\ ~input.p.description.some => recordWire.entries[4].v = WNull
        /\ ~input.p.is_optional.some => recordWire.entries[5].v = WNull
        /\ input.p.value_data_type = Some("Bool") =>
               recordWire.entries[2].v = WString(<<"B", "O", "O", "L">>)
        /\ input.p.value_data_type = Some("Integer") =>
               recordWire.entries[2].v = WString(<<"I", "N", "T", "E", "G", "E", "R">>)
        /\ input.p.description.some => recordWire.entries[4].v = WString(input.p.description.v)
        /\ input.p.is_optional.some => recordWire.entries[5].v = WBool(input.p.is_optional.v)

\* a record with every optional field None was written
C7_Witness ==
    /\ input.t = "record"
    /\ ~input.p.value_data_type.some
    /\ ~input.p.description.some
    /\ ~input.p.is_optional.some
    /\ recordWire # Nothing

\* a wire record the common decoder has no reason to reject: the key once and a
\* string, the value once, no field twice, the hint absent, null or a known
\* token, the description absent, null or a string, isOptional absent, null or
\* a boolean
FieldFine(w, name, shapes) ==
    /\ Count(w, name) <= 1
    /\ \A i \in EntriesNamed(w, name) : w.entries[i].v.shape \in shapes

KnownToken(w) ==
    \A i \in EntriesNamed(w, CamelCase(F_value_data_type)) :
        w.entries[i].v.shape = "string" =>
            \E t \in ValueDataType : ValueDataTypeToken(t) = w.entries[i].v.s

FieldsFine(w) ==
    /\ SimpleFieldsFine(w)
    /\ FieldFine(w, CamelCase(F_value_data_type), {"null", "string"})
    /\ KnownToken(w)
    /\ FieldFine(w, CamelCase(F_description), {"null", "string"})
    /\ FieldFine(w, CamelCase(F_is_optional), {"null", "bool"})

\* C8: in both families a record whose value is Null is written with the value
\* field present and null, and a wire record whose value field is present and
\* null decodes to the Null variant.
C8_NullValuePresent ==
    /\ (input.t \in {"record", "simple_record"} /\ recordWire # Nothing /\ input.p.value.t = "Null") =>
           /\ Count(recordWire, <<"v", "a", "l", "u", "e">>) = 1
           /\ \A i \in EntriesNamed(recordWire, <<"v", "a", "l", "u", "e">>) :
                  recordWire.entries[i].v = WNull
    /\ (input.t = "wire_record" /\ HasValueEntry(input.w)) =>
           /\ (recordDecoded # Nothing /\ FieldsFine(input.w) /\ FirstValue(input.w).shape = "null") =>
                  recordDecoded.ok /\ recordDecoded.val.value = PvNull
           /\ (simpleRecordDecoded # Nothing /\ SimpleFieldsFine(input.w) /\ FirstValue(input.w).shape = "null") =>
                  simpleRecordDecoded.ok /\ simpleRecordDecoded.val.value = ApvNull

\* a wire record with a null value was decoded in both families
C8_Witness ==
    /\ input.t = "wire_record"
    /\ FieldsFine(input.w)
    /\ FirstValue(input.w).shape = "null"
    /\ recordDecoded # Nothing
    /\ simpleRecordDecoded # Nothing

\* the accessors of the probe that report a value
Present8 ==
    {a \in {"as_bool", "as_number", "as_integer", "as_float", "as_string",
            "as_object", "as_array"} : probe[a].some}

\* C9: each accessor returns the payload exactly when the value is its variant
\* and None otherwise; exactly one of is_null and the seven accessors reports
\* presence; as_number is None on a Float and as_float is None on a Number.
C9_AccessorsExact ==
    (input.t = "value" /\ probe # Nothing) =>
        /\ probe.as_bool.some    <=> input.v.t = "Bool"
        /\ probe.as_number.some  <=> input.v.t = "Number"
        /\ probe.as_integer.some <=> input.v.t = "Integer"
        /\ probe.as_float.some   <=> input.v.t = "Float"
        /\ probe.as_string.some  <=> input.v.t = "String"
        /\ probe.as_object.some  <=> input.v.t = "Object"
        /\ probe.as_array.some   <=> input.v.t = "Array"
        /\ probe.as_bool.some    => probe.as_bool.v = input.v.b
        /\ probe.as_number.some  => probe.as_number.v = input.v.n
        /\ probe.as_integer.some => probe.as_integer.v = input.v.i
        /\ probe.as_float.some   => probe.as_float.v = input.v.f
        /\ probe.as_string.some  => probe.as_string.v = input.v.s
        /\ probe.as_object.some  => probe.as_object.v = input.v.obj
        /\ probe.as_array.some   => probe.as_array.v = input.v.arr
        /\ Cardinality(Present8) + (IF probe.is_null THEN 1 ELSE 0) = 1

\* a Float was probed
C9_Witness ==
    /\ input.t = "value"
    /\ input.v.t = "Float"
    /\ probe # Nothing

\* C10: is_null is true exactly for the Null variant, false for every other
\* value (String("null"), an Object or Array holding a null included), and the
\* value decoded from wire null is null.
C10_IsNullOnlyNull ==
    /\ (input.t = "value" /\ probe # Nothing) => (probe.is_null <=> input.v.t = "Null")
    /\ (IsWire /\ decoded # Nothing /\ input.w.shape = "null") =>
           decoded.ok /\ is_null(decoded.val)

\* an Object whose content is a JSON null was probed
C10_Witness ==
    /\ input.t = "value"
    /\ input.v.t = "Object"
    /\ input.v.obj = JNull
    /\ probe # Nothing

\* the number a digit stands for
DigitValue(c) == (CHOOSE k \in 1..10 : Digits[k] = c) - 1

\* b * 10 + d on the limbs (mod 2^64)
Times10Plus(b, d) ==
    LET c1 == b[1] * 10 + d
        c2 == b[2] * 10 + (c1 \div Limb)
        c3 == b[3] * 10 + (c2 \div Limb)
        c4 == b[4] * 10 + (c3 \div Limb)
    IN  <<c1 % Limb, c2 % Limb, c3 % Limb, c4 % Limb>>

\* the unsigned number a digit string reads as
RECURSIVE ReadDigits(_, _)
ReadDigits(s, acc) ==
    IF s = <<>> THEN acc
    ELSE ReadDigits(Tail(s), Times10Plus(acc, DigitValue(Head(s))))

\* a canonical decimal numeral: digits only, no leading zero but for "0"
Canonical(s) ==
    /\ Len(s) >= 1
    /\ \A k \in 1..Len(s) : \E d \in 1..10 : Digits[d] = s[k]
    /\ Len(s) > 1 => s[1] # "0"

\* C11: get_value answers for every value: "null" for Null, "true" or "false"
\* for a Bool, the canonical decimal numeral of i for Integer(i) (a leading
\* minus exactly for a negative i), and s itself for String(s).
C11_GetValueText ==
    (input.t = "value" /\ probe # Nothing) =>
        /\ input.v.t = "Null" => probe.get_value = <<"n", "u", "l", "l">>
        /\ input.v.t = "Bool" =>
             probe.get_value = IF input.v.b THEN <<"t", "r", "u", "e">>
                               ELSE <<"f", "a", "l", "s", "e">>
        /\ input.v.t = "Integer" =>
             IF input.v.i[4] >= Half
             THEN /\ Len(probe.get_value) >= 2
                  /\ Head(probe.get_value) = "-"
                  /\ Canonical(Tail(probe.get_value))
                  /\ Neg64(ReadDigits(Tail(probe.get_value), Zero64)) = input.v.i
             ELSE /\ Canonical(probe.get_value)
                  /\ ReadDigits(probe.get_value, Zero64) = input.v.i
        /\ input.v.t = "String" => probe.get_value = input.v.s

\* get_value was asked of a negative Integer
C11_Witness ==
    /\ input.t = "value"
    /\ input.v.t = "Integer"
    /\ input.v.i[4] >= Half
    /\ probe # Nothing
    /\ Len(probe.get_value) > 10

\* equal payloads of two values of one variant: the payload type's own ==
\* (f64's for the two float variants)
SamePayload(a, b) ==
    IF a.t = "Number" THEN F64Eq(a.n, b.n)
    ELSE IF a.t = "Float" THEN F64Eq(a.f, b.f)
    ELSE a = b

ShapeVariants(shape) ==
    CASE shape = "null"   -> {"Null"}
      [] shape = "bool"   -> {"Bool"}
      [] shape = "int"    -> {"Integer", "Float"}
      [] shape = "float"  -> {"Float"}
      [] shape = "string" -> {"String"}
      [] shape = "map"    -> {"Object"}
      [] shape = "list"   -> {"Array"}

C14_EveryFloatSurvives ==
    (input.t = "value" /\ encoded # Nothing) =>
        /\ input.v.t = "Float" =>
              /\ encoded.shape = "float"
              /\ decoded # Nothing => (decoded.ok /\ decoded.val = input.v)
        /\ input.v.t = "Integer" =>
              /\ encoded.shape = "int"
              /\ decoded # Nothing => (decoded.ok /\ decoded.val = input.v)

\* C14: the encoder writes the bare payload, one wire shape for each of Null,
\* Bool, Integer, String and Array and for a finite Float; a finite Float(x),
\* whole or not, is written as a wire float that decodes to Float(x), never
\* to Integer; an Integer(n) is written as an integral literal that decodes to
\* Integer(n); Float(NaN) and Float(+-inf) are written as null and decode to
\* Null.
C14_FiniteFloatSurvives ==
    (input.t = "value" /\ encoded # Nothing) =>
        /\ input.v.t = "Null" => encoded = WNull
        /\ input.v.t = "Bool" => encoded = WBool(input.v.b)
        /\ input.v.t = "String" => encoded = WString(input.v.s)
        /\ input.v.t = "Array" => encoded.shape = "list"
        /\ (input.v.t = "Float" /\ input.v.f.cls = "finite") =>
              /\ encoded = WFloat(input.v.f)
              /\ decoded # Nothing =>
                    (decoded.ok /\ decoded.val.t = "Float" /\ decoded.val.f = input.v.f)
        /\ (input.v.t = "Float" /\ input.v.f.cls # "finite") =>
              /\ encoded = WNull
              /\ decoded # Nothing => (decoded.ok /\ decoded.val = PvNull)
        /\ input.v.t = "Integer" =>
              /\ encoded.shape = "int"
              /\ encoded.n = I64Value(input.v.i)
              /\ decoded # Nothing =>
                    (decoded.ok /\ decoded.val.t = "Integer" /\ decoded.val.i = input.v.i)

\* Float(42.0) was encoded and the wire float decoded to a Float again
C14_Witness ==
    /\ input.t = "value"
    /\ input.v = PvFloat(Finite(FALSE, 42, 0))
    /\ encoded # Nothing
    /\ decoded # Nothing
    /\ decoded.ok
    /\ decoded.val.t = "Float"

\* C15 as stated: every record of either family, whatever its value holds,
\* decodes from its own wire form to a record equal to it.
C15_EveryRecordRoundTrips ==
    /\ (input.t = "record" /\ recordDecoded # Nothing) =>
          (recordDecoded.ok /\ ActionParameterEq(recordDecoded.val, input.p))
    /\ (input.t = "simple_record" /\ simpleRecordDecoded # Nothing) =>
          (simpleRecordDecoded.ok /\ SimpleActionParameterEq(simpleRecordDecoded.val, input.p))

\* the values that have a wire form of their own
Representable(v) ==
    \/ v.t \in {"Null", "Bool", "Boolean", "Integer", "String", "Array"}
    \/ v.t = "Float" /\ v.f.cls = "finite"
    \/ v.t = "Object" /\ v.obj.j = "Object"

\* C15: decoding the wire form of a record always succeeds and gives back the
\* key and the optional fields; the record is equal to the original when its
\* value is Null, Bool, Integer, a finite Float, String, an Object holding a
\* key-map, or Array.  A finite Number(x) comes back as Float(x), a non-finite
\* Number or Float as Null, an Object holding something else than a key-map as
\* another variant.
C15_RepresentableRoundTrips ==
    /\ (input.t = "record" /\ recordDecoded # Nothing) =>
          /\ recordDecoded.ok
          /\ recordDecoded.val.key = input.p.key
          /\ recordDecoded.val.value_data_type = input.p.value_data_type
          /\ recordDecoded.val.description = input.p.description
          /\ recordDecoded.val.is_optional = input.p.is_optional
          /\ Representable(input.p.value) =>
                ActionParameterEq(recordDecoded.val, input.p)
          /\ (input.p.value.t = "Number" /\ input.p.value.n.cls = "finite") =>
                recordDecoded.val.value = PvFloat(input.p.value.n)
          /\ (input.p.value.t = "Number" /\ input.p.value.n.cls # "finite") =>
                recordDecoded.val.value = PvNull
          /\ (input.p.value.t = "Float" /\ input.p.value.f.cls # "finite") =>
                recordDecoded.val.value = PvNull
          /\ (input.p.value.t = "Object" /\ input.p.value.obj.j # "Object") =>
                recordDecoded.val.value.t # "Object"
    /\ (input.t = "simple_record" /\ simpleRecordDecoded # Nothing) =>
          /\ simpleRecordDecoded.ok
          /\ simpleRecordDecoded.val.key = input.p.key
          /\ Representable(input.p.value) =>
                SimpleActionParameterEq(simpleRecordDecoded.val, input.p)
          /\ ~Representable(input.p.value) => simpleRecordDecoded.val.value = ApvNull

\* a record with an Object value and every optional field set came back equal
C15_Witness ==
    /\ input.t = "record"
    /\ input.p.value.t = "Object"
    /\ input.p.value.obj.j = "Object"
    /\ input.p.value_data_type = Some("Object")
    /\ input.p.description.some
    /\ input.p.is_optional.some
    /\ recordDecoded # Nothing
    /\ recordDecoded.ok
    /\ ActionParameterEq(recordDecoded.val, input.p)

\* the keys of a wire key-map are pairwise distinct
DistinctKeys(w) ==
    \A i, k \in 1..Len(w.entries) : w.entries[i].k = w.entries[k].k => i = k

RECURSIVE Separators(_, _, _, _)
Separators(s, i, depth, inStr) ==
    IF i > Len(s) THEN {}
    ELSE IF inStr
    THEN (IF s[i] = "\\" THEN Separators(s, i + 2, depth, TRUE)
          ELSE Separators(s, i + 1, depth, s[i] # "\""))
    ELSE IF s[i] = "\"" THEN Separators(s, i + 1, depth, TRUE)
    ELSE IF s[i] \in {"[", "{"} THEN Separators(s, i + 1, depth + 1, FALSE)
    ELSE IF s[i] \in {"]", "}"} THEN Separators(s, i + 1, depth - 1, FALSE)
    ELSE IF s[i] = ","
    THEN {[pos |-> i, depth |-> depth, spaced |-> (i < Len(s) /\ s[i + 1] = " ")]}
         \cup Separators(s, i + 1, depth, FALSE)
    ELSE Separators(s, i + 1, depth, FALSE)

TopSeparators(s) == {c.pos : c \in {x \in Separators(s, 1, 0, FALSE) : x.depth = 1}}

\* the text of the k-th element: what stands between the top-level separators
ElementText(s, k) ==
    LET tops == TopSeparators(s)
        nth(m) == CHOOSE p \in tops : Cardinality({q \in tops : q < p}) = m - 1
        from == IF k = 1 THEN 2 ELSE nth(k - 1) + 2
        to == IF k = Cardinality(tops) + 1 THEN Len(s) - 1 ELSE nth(k) - 1
    IN  SubSeq(s, from, to)

\* the top level of the rendering of an Array: brackets around the renderings
\* of the elements in order, n - 1 separators ", " for n >= 1 elements
TopLevelRendering ==
    LET s == probe.get_value
        n == Len(input.v.arr)
    IN  /\ Len(s) >= 2
        /\ s[1] = "["
        /\ s[Len(s)] = "]"
        /\ n = 0 => s = <<"[", "]">>
        /\ n >= 1 => Cardinality(TopSeparators(s)) = n - 1
        /\ \A c \in Separators(s, 1, 0, FALSE) : c.depth = 1 => c.spaced
        /\ n >= 1 => \A k \in 1..n : ElementText(s, k) = DisplayValue(input.v.arr[k])

\* C17 as stated: the top level as above, and the elements of the arrays and
\* objects nested inside elements separated by a comma and a space as well.
C17_NestedSeparatedAlike ==
    (input.t = "value" /\ input.v.t = "Array" /\ probe # Nothing) =>
        /\ TopLevelRendering
        /\ \A c \in Separators(probe.get_value, 1, 0, FALSE) : c.spaced

\* C17: get_value on an Array is "[", the renderings of the elements in
\* order separated by a comma and a space, and "]": n - 1 top-level ", "
\* for n >= 1 elements, "[]" for none; arrays and objects nested inside an
\* element are rendered compactly, their elements separated by a bare comma.
C17_ArrayRendering ==
    (input.t = "value" /\ input.v.t = "Array" /\ probe # Nothing) =>
        /\ TopLevelRendering
        /\ \A c \in Separators(probe.get_value, 1, 0, FALSE) : c.depth > 1 => ~c.spaced

\* an Array holding a nested array of two elements was rendered
C17_Witness ==
    /\ input.t = "value"
    /\ input.v.t = "Array"
    /\ Len(input.v.arr) = 2
    /\ input.v.arr[1].j = "Array"
    /\ Len(input.v.arr[1].arr) = 2
    /\ probe # Nothing
    /\ Cardinality(TopSeparators(probe.get_value)) = 1

\* C18: the default common::ActionParameter has an empty key, the value Null
\* (is_null answers true, every typed accessor None) and value_data_type,
\* description and is_optional all None.
C18_DefaultRecord ==
    (input.t = "default" /\ built # Nothing) =>
        /\ built.key = <<>>
        /\ built.value.t = "Null"
        /\ built.value_data_type = None
        /\ built.description = None
        /\ built.is_optional = None
        /\ probe # Nothing =>
              /\ probe.is_null
              /\ ~probe.as_bool.some
              /\ ~probe.as_number.some
              /\ ~probe.as_integer.some
              /\ ~probe.as_float.some
              /\ ~probe.as_string.some
              /\ ~probe.as_object.some
              /\ ~probe.as_array.some

\* the default record was built and its value probed
C18_Witness ==
    /\ input.t = "default"
    /\ built # Nothing
    /\ probe # Nothing
    /\ probe.is_null

\* the record p with Float in the place of its Number
AsFloat(p) ==
    ActionParameter(p.key, p.value_data_type, PvFloat(p.value.n), p.description, p.is_optional)

\* no decoder result holds the Number variant, and a wire float decodes to the
\* Float of its number
NeverNumber ==
    /\ (decoded # Nothing /\ decoded.ok) => decoded.val.t # "Number"
    /\ (recordDecoded # Nothing /\ recordDecoded.ok) => recordDecoded.val.value.t # "Number"
    /\ (IsWire /\ decoded # Nothing /\ input.w.shape = "float") =>
          (decoded.ok /\ decoded.val.t = "Float" /\ decoded.val.f = input.w.x)

\* C19 as stated: deserialize_parameter_value never produces Number, every
\* wire float decodes to Float, and a record holding Number(x), for every x,
\* is written like one holding Float(x) and decodes back as Float(x).
C19_EveryNumberComesBackFloat ==
    /\ NeverNumber
    /\ (input.t = "record" /\ input.p.value.t = "Number" /\ recordWire # Nothing) =>
          /\ recordWire = SerializeActionParameter(AsFloat(input.p))
          /\ recordDecoded # Nothing =>
                (recordDecoded.ok /\ recordDecoded.val.value.t = "Float"
                 /\ recordDecoded.val.value.f = input.p.value.n)

\* C19: deserialize_parameter_value never produces Number; every wire float
\* decodes to Float; a record holding Number(x) is written like one holding
\* Float(x), and it decodes back holding Float(x) when x is finite and Null
\* when x is NaN or infinite.
C19_NumberComesBackFloat ==
    /\ NeverNumber
    /\ (input.t = "record" /\ input.p.value.t = "Number" /\ recordWire # Nothing) =>
          /\ recordWire = SerializeActionParameter(AsFloat(input.p))
          /\ (recordDecoded # Nothing /\ input.p.value.n.cls = "finite") =>
                (recordDecoded.ok /\ recordDecoded.val.value.t = "Float"
                 /\ recordDecoded.val.value.f = input.p.value.n)
          /\ (recordDecoded # Nothing /\ input.p.value.n.cls # "finite") =>
                (recordDecoded.ok /\ recordDecoded.val.value.t = "Null")

\* a record holding Number(42.0) was written and decoded back holding Float
C19_Witness ==
    /\ input.t = "record"
    /\ input.p.value = PvNumber(Finite(FALSE, 42, 0))
    /\ recordDecoded # Nothing
    /\ recordDecoded.ok
    /\ recordDecoded.val.value = PvFloat(Finite(FALSE, 42, 0))

\* C20: an absent value field is not taken for Null: in both families a wire
\* record without a value key fails to decode, while one whose value key is
\* present with null decodes to the Null variant; an absent valueDataType,
\* description or isOptional decodes to None without error.
C20_AbsentValueIsAnError ==
    input.t = "wire_record" =>
        /\ ~HasValueEntry(input.w) =>
              /\ recordDecoded # Nothing => ~recordDecoded.ok
              /\ simpleRecordDecoded # Nothing => ~simpleRecordDecoded.ok
        /\ (HasValueEntry(input.w) /\ FirstValue(input.w).shape = "null") =>
              /\ (recordDecoded # Nothing /\ FieldsFine(input.w)) =>
                    (recordDecoded.ok /\ recordDecoded.val.value.t = "Null")
              /\ (simpleRecordDecoded # Nothing /\ SimpleFieldsFine(input.w)) =>
                    (simpleRecordDecoded.ok /\ simpleRecordDecoded.val.value.t = "Null")
        /\ (recordDecoded # Nothing /\ FieldsFine(input.w)) =>
              /\ recordDecoded.ok
              /\ Count(input.w, CamelCase(F_value_data_type)) = 0 =>
                    recordDecoded.val.value_data_type = None
              /\ Count(input.w, CamelCase(F_description)) = 0 =>
                    recordDecoded.val.description = None
              /\ Count(input.w, CamelCase(F_is_optional)) = 0 =>
                    recordDecoded.val.is_optional = None

\* a wire record with a key and no value was refused by both decoders
C20_Witness ==
    /\ input.t = "wire_record"
    /\ Count(input.w, CamelCase(F_key)) = 1
    /\ ~HasValueEntry(input.w)
    /\ recordDecoded # Nothing
    /\ ~recordDecoded.ok
    /\ simpleRecordDecoded # Nothing
    /\ ~simpleRecordDecoded.ok


\* C21: for every wire value, decoding it directly as a ParameterValue (the
\* derived untagged decoder, variants tried in declaration order) and decoding
\* it with deserialize_parameter_value give the same outcome: both succeed
\* with the same variant and the same payload.
C21_DecodePathsAgree ==
    (IsWire /\ decoded # Nothing /\ untagged # Nothing) =>
        /\ untagged.ok = decoded.ok
        /\ untagged.ok =>
              /\ untagged.val.t = decoded.val.t
              /\ untagged.val = decoded.val


\* the variant of the extended family that corresponds to a variant of the
\* simple family
Corresponding(t) == IF t = "Boolean" THEN "Bool" ELSE t

\* C22: for every wire value of shape null, boolean, integer, float or string,
\* whichever Visitor method delivers it (every integer width, char, str,
\* String), deserialize_value and deserialize_parameter_value both succeed and
\* yield corresponding variants (Null/Null, Boolean/Bool, Integer/Integer,
\* Float/Float, String/String) with the same payload.
C22_ScalarsClassifiedAlike ==
    (IsWire /\ input.w.shape \in ScalarShapes /\ decoded # Nothing /\ simple # Nothing) =>
        /\ decoded.ok /\ simple.ok
        /\ decoded.val.t = Corresponding(simple.val.t)
        /\ simple.val.t \in {"Null", "Boolean", "Integer", "Float", "String"}
        /\ CASE simple.val.t = "Null" -> TRUE
             [] simple.val.t = "Boolean" -> decoded.val.b = simple.val.b
             [] simple.val.t = "Integer" -> decoded.val.i = simple.val.i
             [] simple.val.t = "Float" -> decoded.val.f = simple.val.f
             [] simple.val.t = "String" -> decoded.val.s = simple.val.s

\* C22: an unsigned integer above i64::MAX, delivered by visit_u64, has been
\* decoded by both families
C22_Witness ==
    /\ IsWire /\ input.w.shape = "int"
    /\ input.c.m = "visit_u64" /\ ~InI64Range(U64Value(input.c.bits))
    /\ decoded # Nothing /\ simple # Nothing
    /\ decoded.ok /\ simple.ok
    /\ decoded.val.t = "Integer" /\ simple.val.t = "Integer"
    /\ decoded.val.i = simple.val.i

====
